---- MODULE Spec2Model ----
(***************************************************************************)
(* Model of scripts/rollback_nifi_automated.py: the teardown of a live    *)
(* NiFi flow (delete_all_components) and the replay of a backup into it   *)
(* (upload_flow_to_nifi, import_process_group_recursively).               *)
(*                                                                         *)
(* Every remote call (GET, DELETE, POST) is one step and is appended to   *)
(* `calls` with the response the server gave.  Python's recursion is an   *)
(* explicit stack of frames.                                               *)
(***************************************************************************)
EXTENDS Integers, Sequences, FiniteSets, TLC

\* Remote calls that the server may fail for reasons of its own (timeouts,
\* busy components, 4xx/5xx) in one run.
MaxFail == 2
\* Revision changes that another actor may make to the live flow in one run.
MaxBump == 1
MaxNodes == 4
MaxBlob == 5

(***************************************************************************)
(* Identifiers.  Live components, backup components and the components    *)
(* that the server creates during an import live in separate id spaces.   *)
(***************************************************************************)
Live(i) == <<"live", i>>
Snap(i) == <<"snap", i>>
New(n) == <<"new", n>>
NoId == <<"none", 0>>

\* The keys of a process group's flow JSON, as the scripts read them.
Kinds == {"connections", "processors", "inputPorts", "outputPorts", "funnels",
          "processGroups"}

\* One component of a flow: its kind, the index of the group that holds it
\* (0 is the root), the endpoints of a connection (0 otherwise), its revision.
Node(k, p, s, d, v) == [kind |-> k, parent |-> p, src |-> s, dst |-> d, version |-> v]

\* The flows that a run may meet, on the live server or in a backup.  A node's
\* index in the sequence is its identity.
Flows ==
  << \* 1: empty flow
     << >>,
     \* 2: two processors and the connection between them at the root
     << Node("processors", 0, 0, 0, 1), Node("processors", 0, 0, 0, 2),
        Node("connections", 0, 1, 2, 1) >>,
     \* 3: one group holding two processors and the connection between them
     << Node("processGroups", 0, 0, 0, 3), Node("processors", 1, 0, 0, 1),
        Node("processors", 1, 0, 0, 2), Node("connections", 1, 2, 3, 1) >>,
     \* 4: every kind at the root, the connection from a port to the processor
     << Node("funnels", 0, 0, 0, 1), Node("processGroups", 0, 0, 0, 2),
        Node("outputPorts", 0, 0, 0, 1), Node("inputPorts", 0, 0, 0, 2),
        Node("processors", 0, 0, 0, 1), Node("connections", 0, 4, 5, 3) >>,
     \* 5: three levels of nesting
     << Node("processGroups", 0, 0, 0, 1), Node("processors", 1, 0, 0, 2),
        Node("processGroups", 1, 0, 0, 1), Node("funnels", 3, 0, 0, 1),
        Node("processGroups", 3, 0, 0, 2), Node("processors", 5, 0, 0, 1) >>,
     \* 6: every kind inside one group, beside a sibling group and a processor
     << Node("processGroups", 0, 0, 0, 1), Node("processGroups", 1, 0, 0, 1),
        Node("funnels", 1, 0, 0, 2), Node("outputPorts", 1, 0, 0, 1),
        Node("inputPorts", 1, 0, 0, 1), Node("connections", 1, 7, 3, 2),
        Node("processors", 1, 0, 0, 1), Node("processors", 0, 0, 0, 1),
        Node("processGroups", 0, 0, 0, 2) >>
  >>

VARIABLES
  pc,        \* where main() is: "download", "auth", "root", "prebackup", "stop",
             \* "confirm", "teardown", "upload", "done", "failed", "cancelled";
             \* "count" and "store" where a function is checked on its own
  live,      \* the flow on the server when the run starts (an element of Flows)
  present,   \* indices of the live components that still exist
  rev,       \* current revision of every live component, by index
  tstack,    \* frames of delete_all_components, innermost last
  deleted,   \* what delete_all_components(root) returned; -1 before
  snap,      \* the flow of the backup that is uploaded (an element of Flows)
  layout,    \* where the backup's JSON keeps the children of a nested group:
             \* "contents" (under the group's 'contents' key) or "direct" (in
             \* the group object itself, as /download writes them)
  rstack,    \* frames of upload_flow_to_nifi and of
             \* import_process_group_recursively, innermost last
  imported,  \* result['imported'] of upload_flow_to_nifi; -1 before
  nextid,    \* the server's counter for the ids of created components
  calls,     \* every remote call issued so far, in order, with its response
  fails,     \* failures the server has injected so far
  bumps,     \* revision changes by other actors so far
  config,    \* AUTO_CONFIRM, STOP_PROCESSORS, CREATE_PRE_BACKUP of the environment
  args,      \* --skip-stop and --skip-backup of the command line
  confirm,   \* what input() gave at the confirmation; "none" before
  runStatus, \* status.runStatus of every live component, by index
  sstack,    \* frames of stop_all_processors, innermost last
  stopped_count, \* what stop_all_processors(root) returned; -1 before
  stats,     \* what count_components_recursive returned; NoStats before
  flow_content, \* the bytes stored as flow.json.gz
  flow_json  \* what download_backup made of them; NotDownloaded before

vars == <<pc, live, present, rev, tstack, deleted, snap, layout, rstack, imported, nextid,
          calls, fails, bumps, config, args, confirm, runStatus, sstack, stopped_count,
          stats, flow_content, flow_json>>

\* What the teardown leaves alone, and what the upload leaves alone.
uploadVars == <<snap, layout, rstack, imported, nextid>>
teardownVars == <<live, present, rev, tstack, deleted, bumps>>
\* What only main() and stop_all_processors change.
\* What only the count of a backup and the download of one change.
pureVars == <<stats, flow_content, flow_json>>
mainVars == <<config, args, confirm, runStatus, sstack, stopped_count, pureVars>>

Indices(g) == 1..Len(g)
IdSeq(g) == [i \in Indices(g) |-> i]

\* delete_component's and the import's URL segment for a kind.
ComponentType(k) ==
  CASE k = "connections" -> "connections"
    [] k = "processors" -> "processors"
    [] k = "inputPorts" -> "input-ports"
    [] k = "outputPorts" -> "output-ports"
    [] k = "funnels" -> "funnels"
    [] k = "processGroups" -> "process-groups"

\* One entry of `calls`: the request (op, URL type and id, the revision sent,
\* the body of a POST: node, pid, psrc, pdst) and what the server held and
\* answered (cur: the revision it had, seen: the ids a GET listed, ok, newid).
Call(op, type, id, version, cur, ok, seen) ==
  [op |-> op, type |-> type, id |-> id, version |-> version, cur |-> cur,
   ok |-> ok, seen |-> seen, node |-> NoId, pid |-> NoId, psrc |-> NoId,
   pdst |-> NoId, newid |-> NoId]

Top(s) == s[Len(s)]
Pop(s) == SubSeq(s, 1, Len(s) - 1)
SetTop(s, f) == [s EXCEPT ![Len(s)] = f]

(***************************************************************************)
(* The live server.                                                        *)
(***************************************************************************)
\* GET /flow/process-groups/{pg}: the components of one level that exist,
\* each with its current revision, listed per kind.
ServerFlow(pg) ==
  [k \in Kinds |->
     LET here(i) == /\ i \in present
                    /\ live[i].parent = pg
                    /\ live[i].kind = k
         ids == SelectSeq(IdSeq(live), here)
     IN [j \in 1..Len(ids) |-> [id |-> ids[j], kind |-> k, version |-> rev[ids[j]]]]]

\* The ids that a GET of level pg lists.
ServerListing(pg) == {i \in present : live[i].parent = pg}

\* The revision the server holds for a component (-1: no such component).
CurrentRevision(i) == IF i \in present THEN rev[i] ELSE -1

\* DELETE /{type}/{id}?version=v is refused for a component that is gone,
\* for a stale revision and for a process group that is not empty.
ServerRefusesDelete(i, v) ==
  \/ i \notin present
  \/ CurrentRevision(i) # v
  \/ \E c \in present : live[c].parent = i

(***************************************************************************)
(* delete_all_components                                                   *)
(***************************************************************************)
\* (mutant) processors are deleted before the connections between them.
DeleteOrderProcessorsFirst ==
  <<"processors", "connections", "inputPorts", "outputPorts", "funnels",
    "processGroups">>

\* The order in which one level's components are deleted.
DeleteOrder ==
  <<"connections", "processors", "inputPorts", "outputPorts", "funnels",
    "processGroups">>

\* The work list of one level: the six loops over the flow read at its top.
TeardownItems(flow) ==
  flow[DeleteOrder[1]] \o flow[DeleteOrder[2]] \o flow[DeleteOrder[3]]
    \o flow[DeleteOrder[4]] \o flow[DeleteOrder[5]] \o flow[DeleteOrder[6]]

\* A frame after a successful get_all_components.
TeardownFrame(pg) ==
  [pg |-> pg, items |-> TeardownItems(ServerFlow(pg)), i |-> 1,
   deleted_count |-> 0, at |-> "loop"]

\* The frame of a caller whose call delete_all_components(child) returned
\* child_count: the value is dropped and the group's own delete comes next.
AfterChildReturned(f, child_count) == [f EXCEPT !.at = "returned"]

\* The frame of a caller whose try block raised: on to the next child group.
AfterChildRaised(f) == [f EXCEPT !.i = f.i + 1, !.at = "loop"]

\* (mutant) the delete after a child's teardown names the group being torn
\* down instead of the child.
DeleteTargetOwnGroup(pg, it) == IF it.kind = "processGroups" THEN pg ELSE it.id

\* Which component a delete of work item `it` of the level `pg` targets.
DeleteTarget(pg, it) == it.id

\* (mutant) a delete is counted whether or not the server accepted it.
AfterDeleteCountsAlways(f, ok) ==
  [f EXCEPT !.i = f.i + 1, !.at = "loop", !.deleted_count = f.deleted_count + 1]

\* A loop that tries a failed delete again.
AfterDeleteRetries(f, ok) ==
  [f EXCEPT !.i = IF ok THEN f.i + 1 ELSE f.i, !.at = "loop",
            !.deleted_count = IF ok THEN f.deleted_count + 1 ELSE f.deleted_count]

\* The frame after delete_component for item i answered `ok`.
AfterDelete(f, ok) ==
  [f EXCEPT !.i = f.i + 1, !.at = "loop",
            !.deleted_count = IF ok THEN f.deleted_count + 1 ELSE f.deleted_count]

\* main() calls delete_all_components(root): the first read of the root.
TeardownStart ==
  /\ pc = "teardown"
  /\ tstack = << >>
  /\ deleted = -1
  /\ \E ok \in BOOLEAN :
       /\ ~ok => fails < MaxFail
       /\ fails' = IF ok THEN fails ELSE fails + 1
       /\ calls' = Append(calls, Call("GET", "flow", Live(0), 0, 0, ok,
                                      IF ok THEN ServerListing(0) ELSE {}))
       /\ IF ok
            THEN /\ tstack' = <<TeardownFrame(0)>>
                 /\ pc' = pc
            ELSE \* raise_for_status: caught by main's except, exit(1)
                 /\ tstack' = tstack
                 /\ pc' = "failed"
  /\ UNCHANGED <<live, present, rev, deleted, bumps, uploadVars, mainVars>>

\* One iteration of a loop over connections, processors, ports or funnels.
TeardownDelete ==
  /\ pc = "teardown"
  /\ tstack # << >>
  /\ LET f == Top(tstack) IN
     /\ f.at = "loop"
     /\ f.i <= Len(f.items)
     /\ f.items[f.i].kind # "processGroups"
     /\ LET it == f.items[f.i]
            t == DeleteTarget(f.pg, it)
        IN \E ok \in BOOLEAN :
             /\ ok => ~ServerRefusesDelete(t, it.version)
             /\ (~ok /\ ~ServerRefusesDelete(t, it.version)) => fails < MaxFail
             /\ fails' = IF ~ok /\ ~ServerRefusesDelete(t, it.version)
                           THEN fails + 1 ELSE fails
             /\ calls' = Append(calls, Call("DELETE", ComponentType(it.kind), Live(t),
                                            it.version, CurrentRevision(t), ok, {}))
             /\ present' = IF ok THEN present \ {t} ELSE present
             /\ tstack' = SetTop(tstack, AfterDelete(f, ok))
  /\ UNCHANGED <<pc, live, rev, deleted, bumps, uploadVars, mainVars>>

\* The recursive call for a child group, and the read at its top.
TeardownChild ==
  /\ pc = "teardown"
  /\ tstack # << >>
  /\ LET f == Top(tstack) IN
     /\ f.at = "loop"
     /\ f.i <= Len(f.items)
     /\ f.items[f.i].kind = "processGroups"
     /\ LET child == f.items[f.i].id
        IN \E ok \in BOOLEAN :
             /\ ~ok => fails < MaxFail
             /\ fails' = IF ok THEN fails ELSE fails + 1
             /\ calls' = Append(calls, Call("GET", "flow", Live(child), 0, 0, ok,
                                            IF ok THEN ServerListing(child) ELSE {}))
             /\ tstack' = IF ok
                            THEN Append(SetTop(tstack, [f EXCEPT !.at = "called"]),
                                        TeardownFrame(child))
                            ELSE SetTop(tstack, AfterChildRaised(f))
  /\ UNCHANGED <<pc, live, present, rev, deleted, bumps, uploadVars, mainVars>>

\* The delete of a child group whose contents were torn down.
TeardownDeleteGroup ==
  /\ pc = "teardown"
  /\ tstack # << >>
  /\ LET f == Top(tstack) IN
     /\ f.at = "returned"
     /\ LET it == f.items[f.i]
            t == DeleteTarget(f.pg, it)
        IN \E ok \in BOOLEAN :
             /\ ok => ~ServerRefusesDelete(t, it.version)
             /\ (~ok /\ ~ServerRefusesDelete(t, it.version)) => fails < MaxFail
             /\ fails' = IF ~ok /\ ~ServerRefusesDelete(t, it.version)
                           THEN fails + 1 ELSE fails
             /\ calls' = Append(calls, Call("DELETE", ComponentType(it.kind), Live(t),
                                            it.version, CurrentRevision(t), ok, {}))
             /\ present' = IF ok THEN present \ {t} ELSE present
             /\ tstack' = SetTop(tstack, AfterDelete(f, ok))
  /\ UNCHANGED <<pc, live, rev, deleted, bumps, uploadVars, mainVars>>

\* return deleted_count
TeardownReturn ==
  /\ pc = "teardown"
  /\ tstack # << >>
  /\ LET f == Top(tstack) IN
     /\ f.at = "loop"
     /\ f.i > Len(f.items)
     /\ IF Len(tstack) = 1
          THEN /\ deleted' = f.deleted_count
               /\ tstack' = << >>
               /\ pc' = "upload"
          ELSE /\ deleted' = deleted
               /\ tstack' = SetTop(Pop(tstack),
                                   AfterChildReturned(tstack[Len(tstack) - 1],
                                                      f.deleted_count))
               /\ pc' = pc
  /\ UNCHANGED <<live, present, rev, calls, fails, bumps, uploadVars, mainVars>>

\* Another actor changes a live component while the teardown runs: its
\* revision moves on.
OtherActor ==
  /\ pc = "teardown"
  /\ tstack # << >>
  /\ bumps < MaxBump
  /\ \E c \in present :
       /\ rev' = [rev EXCEPT ![c] = rev[c] + 1]
       /\ bumps' = bumps + 1
  /\ UNCHANGED <<pc, live, present, tstack, deleted, calls, fails, uploadVars, mainVars>>

(***************************************************************************)
(* download_backup, and the gzip and json of the standard library          *)
(***************************************************************************)
\* Stored bytes are sequences of these: the two bytes of the gzip magic
\* (0x1f 0x8b) and the brackets and braces of JSON ([ ] { }).
GzipMagic == <<31, 139>>
JsonBytes == {91, 93, 123, 125}
StoredBytes == {31, 139} \cup JsonBytes

\* gzip.compress(data): the magic, then the data in a frame that tells its
\* length (the frame stands for the deflate stream and its trailer).
compress(data) == GzipMagic \o <<Len(data)>> \o data

RECURSIVE gzip_decompress(_), json_valid(_)

\* gzip.decompress(data): the data of every member in turn; BadGzipFile for
\* bytes that do not start a member, EOFError for a member that is cut short.
gzip_decompress(data) ==
  IF data = << >>
    THEN [status |-> "ok", bytes |-> << >>]
    ELSE IF Len(data) < 2 \/ SubSeq(data, 1, 2) # GzipMagic
      THEN [status |-> "BadGzipFile", bytes |-> << >>]
      ELSE IF Len(data) < 3 \/ Len(data) < 3 + data[3]
        THEN [status |-> "EOFError", bytes |-> << >>]
        ELSE LET rest == gzip_decompress(SubSeq(data, 4 + data[3], Len(data)))
             IN IF rest.status = "ok"
                  THEN [status |-> "ok",
                        bytes |-> SubSeq(data, 4, 3 + data[3]) \o rest.bytes]
                  ELSE rest

\* The texts json.loads accepts, over these bytes: {} and [] and an array
\* around one of them.
json_valid(text) ==
  /\ Len(text) >= 2
  /\ \/ text = <<123, 125>>
     \/ text = <<91, 93>>
     \/ /\ text[1] = 91
        /\ text[Len(text)] = 93
        /\ json_valid(SubSeq(text, 2, Len(text) - 1))

\* json.loads(text): a dict, a list, or the error it raises (0x8b is not
\* UTF-8, which is a UnicodeDecodeError and no JSONDecodeError).
json_loads(text) ==
  IF json_valid(text)
    THEN IF text[1] = 123 THEN "dict" ELSE "list"
    ELSE IF \E i \in 1..Len(text) : text[i] = 139
      THEN "UnicodeDecodeError"
      ELSE "JSONDecodeError"

Raised == [status |-> "Exception", bytes |-> << >>]
Returned(bytes) == [status |-> "ok", bytes |-> bytes]

\* rollback_nifi.py, download_backup: gzip.decompress and nothing else.
rollback_nifi_download_backup(content) ==
  LET d == gzip_decompress(content)
  IN IF d.status = "ok" THEN Returned(d.bytes) ELSE Raised

\* A download that takes what is no gzip as it is and does not parse it.
download_backup_unvalidated(content) ==
  LET d == gzip_decompress(content)
  IN IF d.status = "EOFError" THEN Raised
     ELSE Returned(IF d.status = "ok" THEN d.bytes ELSE content)

\* rollback_nifi_automated.py, download_backup: gzip.decompress, the bytes as
\* they are on BadGzipFile, then json.loads to validate; every exception
\* becomes "Failed to download backup".
download_backup(content) ==
  LET d == gzip_decompress(content)
  IN IF d.status = "EOFError"
       THEN Raised
       ELSE LET text == IF d.status = "ok" THEN d.bytes ELSE content
            IN IF json_loads(text) \in {"dict", "list"} THEN Returned(text) ELSE Raised

\* The two scripts that download a backup.
Scripts == {"rollback_nifi_automated.py", "rollback_nifi.py"}

\* The value of `flow_json` before the download.
NotDownloaded == [script |-> "none", status |-> "none", bytes |-> << >>]

\* flow_json, metadata = download_backup(repo, backup_path), as `script` has it.
Downloaded(script, content) ==
  LET r == IF script = "rollback_nifi.py"
             THEN rollback_nifi_download_backup(content)
             ELSE download_backup(content)
  IN [script |-> script, status |-> r.status, bytes |-> r.bytes]

(***************************************************************************)
(* upload_flow_to_nifi and import_process_group_recursively               *)
(***************************************************************************)
\* The layouts of a backup's nested groups.
Layouts == {"contents", "direct"}

\* The components of kind k that the backup holds in group g (0: top level).
Listed(g, k) ==
  LET here(i) == snap[i].parent = g /\ snap[i].kind = k
  IN SelectSeq(IdSeq(snap), here)

\* What the upload finds of kind k in group g: flow_contents.get(k, []) at
\* the top level, pg_data.get('contents', ...).get(k, []) in a nested group.
Contents(g, k) ==
  IF g # 0 /\ layout # "contents" THEN << >> ELSE Listed(g, k)

\* (mutant) connections are created before the processors they join.
ImportOrderConnectionsFirst ==
  <<"connections", "processors", "inputPorts", "outputPorts", "funnels",
    "processGroups">>

\* The order of the loops of import_process_group_recursively.
ImportOrder ==
  <<"processors", "connections", "inputPorts", "outputPorts", "funnels",
    "processGroups">>

\* The order of the loops of upload_flow_to_nifi.
UploadOrder ==
  <<"processGroups", "processors", "connections", "inputPorts", "outputPorts">>

ImportItems(g) ==
  Contents(g, ImportOrder[1]) \o Contents(g, ImportOrder[2])
    \o Contents(g, ImportOrder[3]) \o Contents(g, ImportOrder[4])
    \o Contents(g, ImportOrder[5]) \o Contents(g, ImportOrder[6])

UploadItems ==
  Contents(0, UploadOrder[1]) \o Contents(0, UploadOrder[2])
    \o Contents(0, UploadOrder[3]) \o Contents(0, UploadOrder[4])
    \o Contents(0, UploadOrder[5])

\* The id of a backup component as the backup records it (0: no component).
SnapRef(n) == IF n = 0 THEN NoId ELSE Snap(n)

\* The body of the POST that creates a process group: revision 0 and the
\* group's name and position, nothing else of the backup's component.
GroupPayload(n) == [version |-> 0, id |-> NoId, src |-> NoId, dst |-> NoId]

\* (mutant) the create request carries the revision the backup recorded.
ComponentPayloadBackupRevision(n) ==
  [version |-> snap[n].version, id |-> Snap(n), src |-> SnapRef(snap[n].src),
   dst |-> SnapRef(snap[n].dst)]

\* The body of the POST that creates any other component: revision 0 and the
\* backup's component as it is, its id and a connection's endpoints included.
ComponentPayload(n) ==
  [version |-> 0, id |-> Snap(n), src |-> SnapRef(snap[n].src),
   dst |-> SnapRef(snap[n].dst)]

\* (mutant) everything is created under the root the upload was started on.
CreateUnderRoot(f) == Live(0)

\* The process group in whose URL the components of a frame are created.
CreateUnder(f) == f.parent_id

\* POST /process-groups/{parent}/{type} for backup node n, and its response.
Post(parent, n, payload, ok) ==
  [op |-> "POST", type |-> ComponentType(snap[n].kind), id |-> parent,
   version |-> payload.version, cur |-> 0, ok |-> ok, seen |-> {}, node |-> Snap(n),
   pid |-> payload.id, psrc |-> payload.src, pdst |-> payload.dst,
   newid |-> IF ok THEN New(nextid) ELSE NoId]

\* What a POST may come back with: a 200/201, another status, an exception.
Responses == {"ok", "rejected", "raised"}

\* The frame of import_process_group_recursively once the group is created.
ImportFrame(n, new_pg_id) ==
  [parent_id |-> new_pg_id, node |-> n, items |-> ImportItems(n), i |-> 1,
   imported |-> 1]

\* A caller that moves on without adding the count of the group.
AfterImportReturnedDropsCount(f, count) == [f EXCEPT !.i = f.i + 1]

\* The caller's frame after import_process_group_recursively returned count.
AfterImportReturned(f, count) ==
  [f EXCEPT !.i = f.i + 1, !.imported = f.imported + count]

\* The caller's frame after import_process_group_recursively raised.
AfterImportRaised(f) == [f EXCEPT !.i = f.i + 1]

\* A loop that a failed POST ends.
AfterCreateStopsAtFailure(f, r) ==
  [f EXCEPT !.i = IF r = "ok" THEN f.i + 1 ELSE Len(f.items) + 1,
            !.imported = IF r = "ok" THEN f.imported + 1 ELSE f.imported]

\* The frame after the POST of one processor, connection, port or funnel.
AfterCreate(f, r) ==
  [f EXCEPT !.i = f.i + 1,
            !.imported = IF r = "ok" THEN f.imported + 1 ELSE f.imported]

\* json.loads(flow_json) and the set-up of upload_flow_to_nifi.
UploadStart ==
  /\ pc = "upload"
  /\ rstack = << >>
  /\ imported = -1
  /\ IF json_loads(flow_json.bytes) = "dict"
       THEN /\ rstack' = <<[parent_id |-> Live(0), node |-> 0, items |-> UploadItems,
                            i |-> 1, imported |-> 0]>>
            /\ pc' = pc
       ELSE \* "Invalid flow JSON", or no .get on a list: main's except, exit(1)
            /\ rstack' = rstack
            /\ pc' = "failed"
  /\ UNCHANGED <<snap, layout, imported, nextid, calls, fails, teardownVars, mainVars>>

\* An import that goes on into a group whatever status its POST came back with.
GroupCreatedAnyStatus(r) == TRUE

\* not (response.status_code not in [200, 201])
GroupCreated(r) == r = "ok"

\* The call of import_process_group_recursively for the group at f.items[f.i]:
\* the POST of the group, then its frame, or the way back to the caller.
CreateGroup(f) ==
  LET n == f.items[f.i] IN
  \E r \in Responses :
    /\ r # "ok" => fails < MaxFail
    /\ fails' = IF r = "ok" THEN fails ELSE fails + 1
    /\ calls' = Append(calls, Post(CreateUnder(f), n, GroupPayload(n), r = "ok"))
    /\ nextid' = IF r = "ok" THEN nextid + 1 ELSE nextid
    /\ rstack' = CASE r = "raised" -> SetTop(rstack, AfterImportRaised(f))
                   [] GroupCreated(r) -> Append(rstack, ImportFrame(n, New(nextid)))
                   [] OTHER -> SetTop(rstack, AfterImportReturned(f, 0))

\* The POST of one processor, connection, port or funnel.
CreateComponent(f) ==
  LET n == f.items[f.i] IN
  \E r \in Responses :
    /\ r # "ok" => fails < MaxFail
    /\ fails' = IF r = "ok" THEN fails ELSE fails + 1
    /\ calls' = Append(calls, Post(CreateUnder(f), n, ComponentPayload(n), r = "ok"))
    /\ nextid' = IF r = "ok" THEN nextid + 1 ELSE nextid
    /\ rstack' = SetTop(rstack, AfterCreate(f, r))

\* upload_flow_to_nifi: one top-level process group of the backup.
UploadProcessGroup ==
  /\ pc = "upload"
  /\ Len(rstack) = 1
  /\ LET f == Top(rstack) IN
     /\ f.i <= Len(f.items)
     /\ snap[f.items[f.i]].kind = "processGroups"
     /\ CreateGroup(f)
  /\ UNCHANGED <<pc, snap, layout, imported, teardownVars, mainVars>>

\* upload_flow_to_nifi: one root-level processor, connection or port.
UploadComponent ==
  /\ pc = "upload"
  /\ Len(rstack) = 1
  /\ LET f == Top(rstack) IN
     /\ f.i <= Len(f.items)
     /\ snap[f.items[f.i]].kind # "processGroups"
     /\ CreateComponent(f)
  /\ UNCHANGED <<pc, snap, layout, imported, teardownVars, mainVars>>

\* return {'imported': imported}
UploadReturn ==
  /\ pc = "upload"
  /\ Len(rstack) = 1
  /\ LET f == Top(rstack) IN
     /\ f.i > Len(f.items)
     /\ imported' = f.imported
  /\ rstack' = << >>
  /\ pc' = "done"
  /\ UNCHANGED <<snap, layout, nextid, calls, fails, teardownVars, mainVars>>

\* import_process_group_recursively: one component of the group's contents.
ImportComponent ==
  /\ pc = "upload"
  /\ Len(rstack) > 1
  /\ LET f == Top(rstack) IN
     /\ f.i <= Len(f.items)
     /\ snap[f.items[f.i]].kind # "processGroups"
     /\ CreateComponent(f)
  /\ UNCHANGED <<pc, snap, layout, imported, teardownVars, mainVars>>

\* import_process_group_recursively: one child group of the group's contents.
ImportChildGroup ==
  /\ pc = "upload"
  /\ Len(rstack) > 1
  /\ LET f == Top(rstack) IN
     /\ f.i <= Len(f.items)
     /\ snap[f.items[f.i]].kind = "processGroups"
     /\ CreateGroup(f)
  /\ UNCHANGED <<pc, snap, layout, imported, teardownVars, mainVars>>

\* return imported
ImportReturn ==
  /\ pc = "upload"
  /\ Len(rstack) > 1
  /\ LET f == Top(rstack) IN
     /\ f.i > Len(f.items)
     /\ rstack' = SetTop(Pop(rstack),
                         AfterImportReturned(rstack[Len(rstack) - 1], f.imported))
  /\ UNCHANGED <<pc, snap, layout, imported, nextid, calls, fails, teardownVars, mainVars>>

\* The value upload_flow_to_nifi returns.
Report == [imported |-> imported]

\* The items a report names as failed: the report keeps none.
ReportedFailures(report) ==
  IF "failures" \in DOMAIN report THEN report.failures ELSE {}

(***************************************************************************)
(* backup_nifi.py: count_components_recursive                              *)
(***************************************************************************)
\* What the count finds of kind k in group g: flow_contents.get(k, []) on
\* the object it is given, the top level or a group object itself.
Direct(g, k) ==
  IF g # 0 /\ layout # "direct" THEN << >> ELSE Listed(g, k)

StatKeys == {"process_groups", "processors", "connections", "input_ports",
             "output_ports", "funnels"}

AddStats(a, b) == [k \in StatKeys |-> a[k] + b[k]]

\* A loop that counts a child group but not the groups inside it.
GroupStatsOwnOnly(child_stats) == [child_stats EXCEPT !.process_groups = 1]

\* What one child group adds: 1 to process_groups, and all the counts of the
\* group, its process_groups included.
GroupStats(child_stats) ==
  AddStats([k \in StatKeys |-> IF k = "process_groups" THEN 1 ELSE 0], child_stats)

\* The counts at one level, process_groups still 0.
LevelStats(g) ==
  [process_groups |-> 0,
   processors |-> Len(Direct(g, "processors")),
   connections |-> Len(Direct(g, "connections")),
   input_ports |-> Len(Direct(g, "inputPorts")),
   output_ports |-> Len(Direct(g, "outputPorts")),
   funnels |-> Len(Direct(g, "funnels"))]

RECURSIVE count_components_recursive(_), ChildStats(_, _)

\* The loop over the child groups pgs[i..]: one for each group, plus all the
\* counts of the group.
ChildStats(pgs, i) ==
  IF i > Len(pgs)
    THEN [k \in StatKeys |-> 0]
    ELSE AddStats(GroupStats(count_components_recursive(pgs[i])),
                  ChildStats(pgs, i + 1))

count_components_recursive(g) ==
  AddStats(LevelStats(g), ChildStats(Direct(g, "processGroups"), 1))

\* sum(stats.values())
TotalComponents(st) ==
  st.process_groups + st.processors + st.connections
    + st.input_ports + st.output_ports + st.funnels

\* The value of `stats` before the count.
NoStats == [k \in StatKeys |-> -1]

\* The kinds and the parents a flow under construction may take next.
Groups(flow) == {0} \cup {i \in Indices(flow) : flow[i].kind = "processGroups"}

\* One more component in the flow that is to be counted.
AddNode ==
  /\ pc = "count"
  /\ stats = NoStats
  /\ Len(snap) < MaxNodes
  /\ \E k \in Kinds, p \in Groups(snap) :
       snap' = Append(snap, Node(k, p, 0, 0, 1))
  /\ UNCHANGED <<pc, layout, rstack, imported, nextid, calls, fails, teardownVars,
                 config, args, confirm, runStatus, sstack, stopped_count, stats,
                 flow_content, flow_json>>

\* stats = count_components_recursive(flow_contents)
Count ==
  /\ pc = "count"
  /\ stats = NoStats
  /\ stats' = count_components_recursive(0)
  /\ UNCHANGED <<pc, calls, fails, uploadVars, teardownVars, config, args, confirm,
                 runStatus, sstack, stopped_count, flow_content, flow_json>>

(***************************************************************************)
(* The stored files that are downloaded                                    *)
(***************************************************************************)
\* One more byte in the stored file.
AppendByte ==
  /\ pc = "store"
  /\ flow_json = NotDownloaded
  /\ Len(flow_content) < MaxBlob
  /\ \E b \in StoredBytes : flow_content' = Append(flow_content, b)
  /\ UNCHANGED <<pc, calls, fails, uploadVars, teardownVars, config, args, confirm,
                 runStatus, sstack, stopped_count, stats, flow_json>>

\* backup_nifi.py: flow_compressed = gzip.compress(flow_data)
Compress ==
  /\ pc = "store"
  /\ flow_json = NotDownloaded
  /\ Len(flow_content) + 3 <= MaxBlob
  /\ flow_content' = compress(flow_content)
  /\ UNCHANGED <<pc, calls, fails, uploadVars, teardownVars, config, args, confirm,
                 runStatus, sstack, stopped_count, stats, flow_json>>

\* One of the scripts downloads the stored file.
Download ==
  /\ pc = "store"
  /\ flow_json = NotDownloaded
  /\ \E script \in Scripts : flow_json' = Downloaded(script, flow_content)
  /\ UNCHANGED <<pc, calls, fails, uploadVars, teardownVars, config, args, confirm,
                 runStatus, sstack, stopped_count, stats, flow_content>>

(***************************************************************************)
(* stop_all_processors                                                     *)
(***************************************************************************)
\* The run states a processor may be read in.
RunStatuses == <<"Stopped", "Validating", "Running">>

\* The run state of every component of a flow when the run starts.
InitialRunStatus(flow) == [i \in Indices(flow) |-> RunStatuses[(i % 3) + 1]]

\* processor['status']['runStatus'] in ['Running', 'Validating']
NeedsStop(status) == status \in {"Running", "Validating"}

\* A walk that also stops the funnels of a level.
StopItemsWithFunnels(flow) ==
  flow["processors"] \o flow["funnels"] \o flow["processGroups"]

\* What stop_all_processors takes from the flow it read: the processors,
\* then the child groups.
StopItems(flow) == flow["processors"] \o flow["processGroups"]

\* A loop that a failed stop_processor ends.
AfterStopEndsAtFailure(f, ok) ==
  [f EXCEPT !.i = IF ok THEN f.i + 1 ELSE Len(f.items) + 1,
            !.stopped_count = IF ok THEN f.stopped_count + 1 ELSE f.stopped_count]

\* The frame of stop_all_processors after its get_all_components: the
\* processors of the level, each as it was read, then the child groups.
StopFrame(pg) ==
  LET flow == ServerFlow(pg)
      read(it) == [id |-> it.id, kind |-> it.kind, version |-> it.version,
                   runStatus |-> runStatus[it.id]]
      items == StopItems(flow)
  IN [pg |-> pg, items |-> [j \in 1..Len(items) |-> read(items[j])],
      i |-> 1, stopped_count |-> 0]

\* The frame after one processor of the loop: counted when stop_processor
\* returned.
AfterStop(f, ok) ==
  [f EXCEPT !.i = f.i + 1,
            !.stopped_count = IF ok THEN f.stopped_count + 1 ELSE f.stopped_count]

\* stopped_count += stop_all_processors(child)
AfterStopReturned(f, count) ==
  [f EXCEPT !.i = f.i + 1, !.stopped_count = f.stopped_count + count]

\* Step 6 of main(): skipped, or the call stop_all_processors(root) and the
\* read at its top.  A failed read raises into main's except.
StopStart ==
  /\ pc = "stop"
  /\ sstack = << >>
  /\ IF config.STOP_PROCESSORS /\ ~args.skip_stop
       THEN \E ok \in BOOLEAN :
              /\ ~ok => fails < MaxFail
              /\ fails' = IF ok THEN fails ELSE fails + 1
              /\ calls' = Append(calls, Call("GET", "flow", Live(0), 0, 0, ok,
                                             IF ok THEN ServerListing(0) ELSE {}))
              /\ sstack' = IF ok THEN <<StopFrame(0)>> ELSE sstack
              /\ pc' = IF ok THEN pc ELSE "failed"
       ELSE /\ pc' = "confirm"
            /\ UNCHANGED <<calls, fails, sstack>>
  /\ UNCHANGED <<pureVars, config, args, confirm, runStatus, stopped_count, teardownVars,
                 uploadVars>>

\* One processor of the loop: a PUT for one read as Running or Validating,
\* nothing for another.
StopProcessor ==
  /\ pc = "stop"
  /\ sstack # << >>
  /\ LET f == Top(sstack) IN
     /\ f.i <= Len(f.items)
     /\ f.items[f.i].kind # "processGroups"
     /\ LET it == f.items[f.i] IN
        IF NeedsStop(it.runStatus)
          THEN \E ok \in BOOLEAN :
                 /\ ~ok => fails < MaxFail
                 /\ fails' = IF ok THEN fails ELSE fails + 1
                 /\ calls' = Append(calls, Call("PUT", "processors", Live(it.id),
                                                it.version, CurrentRevision(it.id),
                                                ok, {}))
                 /\ rev' = IF ok THEN [rev EXCEPT ![it.id] = rev[it.id] + 1] ELSE rev
                 /\ runStatus' = IF ok THEN [runStatus EXCEPT ![it.id] = "Stopped"]
                                       ELSE runStatus
                 /\ sstack' = SetTop(sstack, AfterStop(f, ok))
          ELSE /\ sstack' = SetTop(sstack, [f EXCEPT !.i = f.i + 1])
               /\ UNCHANGED <<calls, fails, rev, runStatus>>
  /\ UNCHANGED <<pc, live, present, tstack, deleted, bumps, pureVars, config, args, confirm,
                 stopped_count, uploadVars>>

\* The recursive call for a child group and the read at its top.  A failed
\* read raises through every caller into main's except.
StopChild ==
  /\ pc = "stop"
  /\ sstack # << >>
  /\ LET f == Top(sstack) IN
     /\ f.i <= Len(f.items)
     /\ f.items[f.i].kind = "processGroups"
     /\ LET child == f.items[f.i].id IN
        \E ok \in BOOLEAN :
          /\ ~ok => fails < MaxFail
          /\ fails' = IF ok THEN fails ELSE fails + 1
          /\ calls' = Append(calls, Call("GET", "flow", Live(child), 0, 0, ok,
                                         IF ok THEN ServerListing(child) ELSE {}))
          /\ sstack' = IF ok THEN Append(sstack, StopFrame(child)) ELSE << >>
          /\ pc' = IF ok THEN pc ELSE "failed"
  /\ UNCHANGED <<pureVars, config, args, confirm, runStatus, stopped_count, teardownVars,
                 uploadVars>>

\* return stopped_count; in main() the sleep, then the confirmation.
StopReturn ==
  /\ pc = "stop"
  /\ sstack # << >>
  /\ LET f == Top(sstack) IN
     /\ f.i > Len(f.items)
     /\ IF Len(sstack) = 1
          THEN /\ stopped_count' = f.stopped_count
               /\ sstack' = << >>
               /\ pc' = "confirm"
          ELSE /\ stopped_count' = stopped_count
               /\ sstack' = SetTop(Pop(sstack),
                                   AfterStopReturned(sstack[Len(sstack) - 1],
                                                     f.stopped_count))
               /\ pc' = pc
  /\ UNCHANGED <<calls, fails, pureVars, config, args, confirm, runStatus, teardownVars,
                 uploadVars>>

(***************************************************************************)
(* main                                                                    *)
(***************************************************************************)
\* A step that goes on whatever the call answered.
MainCallGoesOn(op, type, next) ==
  /\ \E ok \in BOOLEAN :
       /\ ~ok => fails < MaxFail
       /\ fails' = IF ok THEN fails ELSE fails + 1
       /\ calls' = Append(calls, Call(op, type, Live(0), 0, 0, ok, {}))
       /\ pc' = next
  /\ UNCHANGED <<mainVars, teardownVars, uploadVars>>

\* One step of main() that is a single remote call: on to `next`, or the
\* exception that main's except turns into exit(1).
MainCall(op, type, next) ==
  /\ \E ok \in BOOLEAN :
       /\ ~ok => fails < MaxFail
       /\ fails' = IF ok THEN fails ELSE fails + 1
       /\ calls' = Append(calls, Call(op, type, Live(0), 0, 0, ok, {}))
       /\ pc' = IF ok THEN next ELSE "failed"
  /\ UNCHANGED <<mainVars, teardownVars, uploadVars>>

\* flow_json, metadata = download_backup(repo, backup_path): the file is
\* fetched from the store and decoded; a failure of either ends the run.
DownloadBackup ==
  /\ pc = "download"
  /\ \E ok \in BOOLEAN :
       /\ ~ok => fails < MaxFail
       /\ fails' = IF ok THEN fails ELSE fails + 1
       /\ calls' = Append(calls, Call("GET", "backup", Live(0), 0, 0, ok, {}))
       /\ flow_json' = IF ok THEN Downloaded("rollback_nifi_automated.py", flow_content)
                             ELSE flow_json
       /\ pc' = IF ok /\ flow_json'.status = "ok" THEN "auth" ELSE "failed"
  /\ UNCHANGED <<config, args, confirm, runStatus, sstack, stopped_count, stats,
                 flow_content, teardownVars, uploadVars>>

\* token = get_nifi_token()
Authenticate == pc = "auth" /\ MainCall("POST", "access/token", "root")

\* root_pg_id = get_root_process_group_id(token)
ResolveRoot == pc = "root" /\ MainCall("GET", "flow/root", "prebackup")

\* Step 5 of main(): backup_current_flow(token, root_pg_id), or skipped.
PreBackup ==
  /\ pc = "prebackup"
  /\ IF config.CREATE_PRE_BACKUP /\ ~args.skip_backup
       THEN MainCall("GET", "download", "stop")
       ELSE /\ pc' = "stop"
            /\ UNCHANGED <<calls, fails, mainVars, teardownVars, uploadVars>>

\* What input() may give at the confirmation: a line of text, or the
\* exception of an interrupt or of the end of the input.
Answers == {"DELETE AND REPLACE", "delete and replace", "",
            "<KeyboardInterrupt>", "<EOFError>"}

\* An input that lets every text through.
AcceptsAnyText(a) == a \notin {"<KeyboardInterrupt>", "<EOFError>"}

\* The input that lets the run go on: not (confirm != "DELETE AND REPLACE").
Accepts(a) == a = "DELETE AND REPLACE"

\* A handler that catches whatever is raised.
CaughtByBareExcept(e) == TRUE

\* What `except Exception` at the end of main() catches: SystemExit and
\* KeyboardInterrupt derive from BaseException only.
CaughtByMain(e) == e \notin {"SystemExit", "KeyboardInterrupt"}

\* Where a sys.exit(0) inside main's try leaves the run.
AfterExit0 == IF CaughtByMain("SystemExit") THEN "failed" ELSE "cancelled"

\* The exit status of the process.
ExitStatus ==
  CASE pc = "failed" -> 1
    [] pc \in {"done", "cancelled"} -> 0
    [] OTHER -> -1

\* Step 8 of main(): the confirmation, asked unless AUTO_CONFIRM.
Confirm ==
  /\ pc = "confirm"
  /\ IF config.AUTO_CONFIRM
       THEN /\ confirm' = confirm
            /\ pc' = "teardown"
       ELSE \E a \in Answers :
              /\ confirm' = a
              /\ pc' = IF Accepts(a) THEN "teardown" ELSE AfterExit0
  /\ UNCHANGED <<calls, fails, pureVars, config, args, runStatus, sstack, stopped_count,
                 teardownVars, uploadVars>>

InitTeardown ==
  /\ pc = "teardown"
  /\ live \in {Flows[g] : g \in 1..Len(Flows)}
  /\ present = Indices(live)
  /\ rev = [i \in Indices(live) |-> live[i].version]
  /\ tstack = << >>
  /\ deleted = -1
  /\ snap = << >>
  /\ layout = "contents"
  /\ rstack = << >>
  /\ imported = -1
  /\ nextid = 1
  /\ calls = << >>
  /\ fails = 0
  /\ bumps = 0
  /\ config = [AUTO_CONFIRM |-> TRUE, STOP_PROCESSORS |-> FALSE,
                CREATE_PRE_BACKUP |-> FALSE]
  /\ args = [skip_stop |-> FALSE, skip_backup |-> FALSE]
  /\ confirm = "none"
  /\ runStatus = InitialRunStatus(live)
  /\ sstack = << >>
  /\ stopped_count = -1
  /\ stats = NoStats
  /\ flow_content = compress(<<123, 125>>)
  /\ flow_json = Downloaded("rollback_nifi_automated.py", flow_content)

NextTeardown ==
  \/ TeardownStart
  \/ TeardownDelete
  \/ TeardownChild
  \/ TeardownDeleteGroup
  \/ TeardownReturn
  \/ OtherActor

SpecTeardown == InitTeardown /\ [][NextTeardown]_vars

InitReplicate ==
  /\ pc = "upload"
  /\ live = << >>
  /\ present = {}
  /\ rev = << >>
  /\ tstack = << >>
  /\ deleted = -1
  /\ snap \in {Flows[g] : g \in 1..Len(Flows)}
  /\ layout \in Layouts
  /\ rstack = << >>
  /\ imported = -1
  /\ nextid = 1
  /\ calls = << >>
  /\ fails = 0
  /\ bumps = 0
  /\ config = [AUTO_CONFIRM |-> TRUE, STOP_PROCESSORS |-> FALSE,
                CREATE_PRE_BACKUP |-> FALSE]
  /\ args = [skip_stop |-> FALSE, skip_backup |-> FALSE]
  /\ confirm = "none"
  /\ runStatus = InitialRunStatus(live)
  /\ sstack = << >>
  /\ stopped_count = -1
  /\ stats = NoStats
  /\ flow_content = compress(<<123, 125>>)
  /\ flow_json = Downloaded("rollback_nifi_automated.py", flow_content)

NextReplicate ==
  \/ UploadStart
  \/ UploadProcessGroup
  \/ UploadComponent
  \/ UploadReturn
  \/ ImportComponent
  \/ ImportChildGroup
  \/ ImportReturn

SpecReplicate == InitReplicate /\ [][NextReplicate]_vars

\* The live flows and the backups of a whole run.
LiveFlows == {Flows[2], Flows[3], Flows[5]}
BackupFlows == {Flows[1], Flows[3], Flows[6]}

\* The stored files of a whole run: a graph compressed, a JSON list, bytes
\* that are no JSON, a gzip file cut short.
StoredSamples ==
  {compress(<<123, 125>>), <<91, 93>>, <<123>>, <<31, 139, 2, 123>>}

InitMain ==
  /\ pc = "download"
  /\ live \in LiveFlows
  /\ present = Indices(live)
  /\ rev = [i \in Indices(live) |-> live[i].version]
  /\ tstack = << >>
  /\ deleted = -1
  /\ snap \in BackupFlows
  /\ layout \in Layouts
  /\ rstack = << >>
  /\ imported = -1
  /\ nextid = 1
  /\ calls = << >>
  /\ fails = 0
  /\ bumps = 0
  /\ config \in [AUTO_CONFIRM : BOOLEAN, STOP_PROCESSORS : BOOLEAN,
                 CREATE_PRE_BACKUP : BOOLEAN]
  /\ args \in [skip_stop : BOOLEAN, skip_backup : BOOLEAN]
  /\ confirm = "none"
  /\ runStatus = InitialRunStatus(live)
  /\ sstack = << >>
  /\ stopped_count = -1
  /\ stats = NoStats
  /\ flow_content \in StoredSamples
  /\ flow_json = NotDownloaded

NextMain ==
  \/ DownloadBackup
  \/ Authenticate
  \/ ResolveRoot
  \/ PreBackup
  \/ StopStart
  \/ StopProcessor
  \/ StopChild
  \/ StopReturn
  \/ Confirm
  \/ TeardownStart
  \/ TeardownDelete
  \/ TeardownChild
  \/ TeardownDeleteGroup
  \/ TeardownReturn
  \/ UploadStart
  \/ UploadProcessGroup
  \/ UploadComponent
  \/ UploadReturn
  \/ ImportComponent
  \/ ImportChildGroup
  \/ ImportReturn

SpecMain == InitMain /\ [][NextMain]_vars

\* The count of a flow as backup_nifi.py downloads it: nested components
\* directly in the group objects.
InitCount ==
  /\ pc = "count"
  /\ live = << >>
  /\ present = {}
  /\ rev = << >>
  /\ tstack = << >>
  /\ deleted = -1
  /\ snap = << >>
  /\ layout = "direct"
  /\ rstack = << >>
  /\ imported = -1
  /\ nextid = 1
  /\ calls = << >>
  /\ fails = 0
  /\ bumps = 0
  /\ config = [AUTO_CONFIRM |-> TRUE, STOP_PROCESSORS |-> FALSE,
                CREATE_PRE_BACKUP |-> FALSE]
  /\ args = [skip_stop |-> FALSE, skip_backup |-> FALSE]
  /\ confirm = "none"
  /\ runStatus = << >>
  /\ sstack = << >>
  /\ stopped_count = -1
  /\ stats = NoStats
  /\ flow_content = << >>
  /\ flow_json = NotDownloaded

NextCount ==
  \/ AddNode
  \/ Count

SpecCount == InitCount /\ [][NextCount]_vars

\* The two walks to their end: a teardown of a live flow (followed by the
\* upload of an empty backup), or the upload of a backup.  The script is
\* sequential code, so a step that can be taken is taken; other actors are
\* under no such obligation.
InitWalks == InitTeardown \/ InitReplicate

Program ==
  \/ TeardownStart
  \/ TeardownDelete
  \/ TeardownChild
  \/ TeardownDeleteGroup
  \/ TeardownReturn
  \/ UploadStart
  \/ UploadProcessGroup
  \/ UploadComponent
  \/ UploadReturn
  \/ ImportComponent
  \/ ImportChildGroup
  \/ ImportReturn

NextWalks ==
  \/ Program
  \/ OtherActor

SpecWalks == InitWalks /\ [][NextWalks]_vars /\ WF_vars(Program)

\* The stored files a download may meet.
InitDecode ==
  /\ pc = "store"
  /\ live = << >>
  /\ present = {}
  /\ rev = << >>
  /\ tstack = << >>
  /\ deleted = -1
  /\ snap = << >>
  /\ layout = "direct"
  /\ rstack = << >>
  /\ imported = -1
  /\ nextid = 1
  /\ calls = << >>
  /\ fails = 0
  /\ bumps = 0
  /\ config = [AUTO_CONFIRM |-> TRUE, STOP_PROCESSORS |-> FALSE,
                CREATE_PRE_BACKUP |-> FALSE]
  /\ args = [skip_stop |-> FALSE, skip_backup |-> FALSE]
  /\ confirm = "none"
  /\ runStatus = << >>
  /\ sstack = << >>
  /\ stopped_count = -1
  /\ stats = NoStats
  /\ flow_content = << >>
  /\ flow_json = NotDownloaded

NextDecode ==
  \/ AppendByte
  \/ Compress
  \/ Download

SpecDecode == InitDecode /\ [][NextDecode]_vars

(***************************************************************************)
(* Reading the log of remote calls.                                        *)
(***************************************************************************)
CallIdx == 1..Len(calls)
IsDelete(j) == calls[j].op = "DELETE"
IsGet(j) == calls[j].op = "GET"
IsPost(j) == calls[j].op = "POST"
\* The index of the live component (or backup node) an id names.
Idx(id) == id[2]
\* The level (group index, 0 the root) that holds the target of DELETE j.
DeleteLevel(j) == live[Idx(calls[j].id)].parent
\* The level that holds the backup node of POST j.
PostLevel(j) == snap[Idx(calls[j].node)].parent
TeardownReturned == pc = "upload" /\ deleted >= 0
DeleteTypes == {"connections", "processors", "input-ports", "output-ports",
                "funnels", "process-groups"}

\* C1: at every level the teardown visits, the delete calls come in the order
\* connections, processors, input ports, output ports, funnels, child process
\* groups; so no processor of a level is deleted before a connection of it.
DeleteRank(type) ==
  CASE type = "connections" -> 1
    [] type = "processors" -> 2
    [] type = "input-ports" -> 3
    [] type = "output-ports" -> 4
    [] type = "funnels" -> 5
    [] type = "process-groups" -> 6

C2_DeletedCountIsN ==
  (TeardownReturned /\ bumps = 0 /\ \A j \in CallIdx : calls[j].ok)
    => (deleted = Len(live) /\ ServerListing(0) = {})

\* C3: when exactly one call fails, the delete of a processor, the teardown
\* still issues a delete for every other component and returns N - 1.
C3_OneFailureCountsNMinusOne ==
  (/\ TeardownReturned
   /\ bumps = 0
   /\ \E j \in CallIdx :
        /\ IsDelete(j) /\ calls[j].type = "processors" /\ ~calls[j].ok
        /\ \A k \in CallIdx \ {j} : calls[k].ok)
    => (/\ deleted = Len(live) - 1
        /\ \A c \in Indices(live) :
             \E j \in CallIdx : IsDelete(j) /\ calls[j].id = Live(c))

\* C4: no delete call ever targets the root process group the teardown was
\* started on, whatever the flow and whichever calls fail.
C4_RootNeverDeleted ==
  \A j \in CallIdx : IsDelete(j) => calls[j].id # Live(0)

\* A finished teardown that deleted a child group of the root and saw a call
\* fail.
C4_Witness ==
  /\ TeardownReturned
  /\ \E j \in CallIdx :
       IsDelete(j) /\ calls[j].type = "process-groups" /\ calls[j].ok
         /\ DeleteLevel(j) = 0
  /\ \E j \in CallIdx : ~calls[j].ok

\* Whether live component c lies below group g, at any depth.
RECURSIVE Under(_, _)
Under(c, g) == c # 0 /\ (live[c].parent = g \/ Under(live[c].parent, g))

\* C5: the delete call for a child group comes only after the delete calls
\* for all components the teardown read inside that group, at every depth.
C5_GroupDeletedAfterContents ==
  \A j \in CallIdx :
    (IsDelete(j) /\ calls[j].type = "process-groups")
      => \A k \in 1..(j - 1) :
           (/\ IsGet(k) /\ calls[k].ok
            /\ \/ calls[k].id = calls[j].id
               \/ Under(Idx(calls[k].id), Idx(calls[j].id)))
             => \A c \in calls[k].seen :
                  \E m \in 1..(j - 1) : IsDelete(m) /\ calls[m].id = Live(c)

\* C6: every delete call carries a revision read immediately beforehand: the
\* call just before it is the read of the level that produced the revision.
C6_RevisionReadImmediatelyBefore ==
  \A j \in CallIdx :
    IsDelete(j)
      => /\ j > 1
         /\ IsGet(j - 1) /\ calls[j - 1].ok
         /\ calls[j - 1].id = Live(DeleteLevel(j))

\* C7: a delete whose revision another actor has moved on since the teardown
\* read it is rejected, is not counted (every count is the number of accepted
\* deletes of its level), is not issued a second time, and the teardown goes
\* on to issue the call of every other component it read at that level.
StaleDelete(j) == IsDelete(j) /\ calls[j].version # calls[j].cur

AcceptedDeletes(level) ==
  Cardinality({j \in CallIdx : IsDelete(j) /\ calls[j].ok /\ DeleteLevel(j) = level})

C7_StaleDeleteIsOneFailure ==
  /\ \A j \in CallIdx :
       StaleDelete(j)
         => /\ ~calls[j].ok
            /\ \A k \in CallIdx \ {j} : ~(IsDelete(k) /\ calls[k].id = calls[j].id)
            /\ TeardownReturned
                 => \A k \in 1..(j - 1) :
                      (IsGet(k) /\ calls[k].ok /\ calls[k].id = Live(DeleteLevel(j)))
                        => \A c \in calls[k].seen :
                             \E m \in CallIdx :
                               /\ m > k
                               /\ calls[m].id = Live(c)
                               /\ IsDelete(m) \/ (IsGet(m) /\ ~calls[m].ok)
  /\ \A d \in 1..Len(tstack) : tstack[d].deleted_count = AcceptedDeletes(tstack[d].pg)
  /\ TeardownReturned => deleted = AcceptedDeletes(0)

\* A finished teardown in which a stale delete was followed by an accepted
\* delete of another component.
C7_Witness ==
  /\ TeardownReturned
  /\ \E j, k \in CallIdx :
       StaleDelete(j) /\ j < k /\ IsDelete(k) /\ calls[k].ok
         /\ DeleteLevel(j) = DeleteLevel(k)

\* C8: inside every backup group that the import recreates, the create calls
\* come in the order processors, connections, input ports, output ports,
\* funnels, nested groups.
ImportRank(type) ==
  CASE type = "processors" -> 1
    [] type = "connections" -> 2
    [] type = "input-ports" -> 3
    [] type = "output-ports" -> 4
    [] type = "funnels" -> 5
    [] type = "process-groups" -> 6

C8_ImportOrder ==
  \A j, k \in CallIdx :
    (j < k /\ IsPost(j) /\ IsPost(k) /\ PostLevel(j) = PostLevel(k)
       /\ PostLevel(j) # 0)
      => ImportRank(calls[j].type) <= ImportRank(calls[k].type)

\* A finished import that issued a create for each of the six kinds inside
\* one recreated group.
C8_Witness ==
  /\ pc = "done"
  /\ \E g \in Indices(snap) :
       \A t \in DeleteTypes :
         \E j \in CallIdx : IsPost(j) /\ calls[j].type = t /\ PostLevel(j) = g

\* C9: the body of every connection's create call names, for each endpoint
\* processor the import created, the id the server gave it, and never the id
\* the processor has in the backup.
EndpointCreatedAs(j, e, ref) ==
  (e # 0 /\ snap[e].kind = "processors")
    => /\ ref # Snap(e)
       /\ \A k \in 1..(j - 1) :
            (IsPost(k) /\ calls[k].ok /\ calls[k].node = Snap(e))
              => ref = calls[k].newid

C9_ConnectionNamesNewIds ==
  \A j \in CallIdx :
    (IsPost(j) /\ calls[j].type = "connections")
      => /\ EndpointCreatedAs(j, snap[Idx(calls[j].node)].src, calls[j].psrc)
         /\ EndpointCreatedAs(j, snap[Idx(calls[j].node)].dst, calls[j].pdst)

\* C10: every component nested in a backup group is created under the id the
\* server returned for the new copy of that group, never under the group's
\* backup id and never under the root the upload was started on.
C10_CreatedUnderNewGroupId ==
  \A j \in CallIdx :
    (IsPost(j) /\ PostLevel(j) # 0)
      => /\ calls[j].id # Snap(PostLevel(j))
         /\ calls[j].id # Live(0)
         /\ \E k \in 1..(j - 1) :
              /\ IsPost(k) /\ calls[k].ok
              /\ calls[k].node = Snap(PostLevel(j))
              /\ calls[j].id = calls[k].newid

\* A finished import that created a component two groups deep.
C10_Witness ==
  /\ pc = "done"
  /\ \E j \in CallIdx :
       /\ IsPost(j) /\ calls[j].ok
       /\ PostLevel(j) # 0
       /\ snap[PostLevel(j)].parent # 0

\* C11: no create request, of any kind, carries an id or a revision taken
\* from the backup.
C11_NoBackupIdentityInCreate ==
  \A j \in CallIdx :
    IsPost(j)
      => /\ calls[j].pid = NoId
         /\ calls[j].version = 0

\* C12: every create request, of every kind and at every level, carries
\* revision 0.
C12_CreateRevisionZero ==
  \A j \in CallIdx : IsPost(j) => calls[j].version = 0

\* A finished import that issued creates for a group, for a connection
\* inside a group and for a component of the top level.
C12_Witness ==
  /\ pc = "done"
  /\ \E j, k, m \in CallIdx :
       /\ IsPost(j) /\ calls[j].type = "process-groups"
       /\ IsPost(k) /\ PostLevel(k) # 0 /\ calls[k].type = "connections"
       /\ IsPost(m) /\ calls[m].type # "process-groups" /\ PostLevel(m) = 0

\* C13: a finished upload has issued exactly one create call, against the
\* root it was given, for every processor, connection, input port, output
\* port and funnel of the backup's top level.
C13_TopLevelComponentsCreated ==
  pc = "done"
    => \A n \in Indices(snap) :
         (snap[n].parent = 0 /\ snap[n].kind # "processGroups")
           => Cardinality({j \in CallIdx : /\ IsPost(j)
                                           /\ calls[j].node = Snap(n)
                                           /\ calls[j].id = Live(0)}) = 1

\* C14: when the server accepts every create request, the upload creates one
\* component for every group, processor, connection, port and funnel of the
\* backup, at every depth: the total it returns is the sum of the six counts
\* that the backup script computed for the same backup.
C14_AllCreatedWhenServerAccepts ==
  (pc = "done" /\ \A j \in CallIdx : calls[j].ok)
    => /\ imported = TotalComponents(count_components_recursive(0))
       /\ imported = Len(snap)

\* The POSTs the server accepted.
AcceptedPosts == {j \in CallIdx : IsPost(j) /\ calls[j].ok}

\* The POSTs that failed, by a status or an exception.
FailedPosts == {j \in CallIdx : IsPost(j) /\ ~calls[j].ok}

\* C15: the total that the upload returns is the number of create calls the
\* server accepted in the run, whatever the backup and whichever calls fail.
C15_TotalIsAcceptedCreates ==
  pc = "done" => imported = Cardinality(AcceptedPosts)

\* A finished run with failed creates, and accepted creates two groups deep.
C15_Witness ==
  /\ pc = "done"
  /\ FailedPosts # {}
  /\ imported >= 3
  /\ \E j \in AcceptedPosts : PostLevel(j) # 0 /\ snap[PostLevel(j)].parent # 0

\* C16: a run in which every create call failed returns a report that
\* differs from the report of a run on a backup with no components.
C16_FailedRunDiffersFromEmpty ==
  (pc = "done" /\ FailedPosts # {} /\ AcceptedPosts = {})
    => Report # [imported |-> 0]

\* C17: the report of the run has an entry for every create call that
\* failed.
C17_EveryFailureReported ==
  pc = "done" => \A j \in FailedPosts : calls[j].node \in ReportedFailures(Report)

\* The nodes that have a POST in the log.
Posted == {Idx(calls[j].node) : j \in {k \in CallIdx : IsPost(k)}}

\* C18: a failed create call never ends the upload: every item of the top
\* level, and every item of every group that was created, still gets its
\* create call.
C18_FailureDoesNotAbort ==
  pc = "done" =>
    /\ \A i \in 1..Len(UploadItems) : UploadItems[i] \in Posted
    /\ \A j \in AcceptedPosts :
         calls[j].type = "process-groups"
           => \A i \in 1..Len(ImportItems(Idx(calls[j].node))) :
                ImportItems(Idx(calls[j].node))[i] \in Posted

\* A finished run where a create failed at the top level and inside a group,
\* each followed by an accepted create of a later sibling.
C18_Witness ==
  /\ pc = "done"
  /\ \E j, k \in FailedPosts :
       /\ PostLevel(j) = 0
       /\ PostLevel(k) # 0
       /\ \E a, b \in AcceptedPosts :
            /\ a > j /\ PostLevel(a) = 0
            /\ b > k /\ PostLevel(b) = PostLevel(k)

\* A create call: a POST of a component (the POST of the login is none).
IsCreate(j) == IsPost(j) /\ calls[j].type # "access/token"

\* The run has issued a delete call or a create call.
Destructive == \E j \in CallIdx : IsDelete(j) \/ IsCreate(j)

\* C19: unless AUTO_CONFIRM is set, no delete call and no create call is
\* issued before the operator has typed the exact confirmation; the read
\* that opens the teardown does not come earlier either.
C19_NoDestructionBeforeConfirmation ==
  (Destructive \/ pc \in {"teardown", "upload", "done"})
    => (config.AUTO_CONFIRM \/ confirm = "DELETE AND REPLACE")

\* An attended run that was confirmed and went on to delete and to create.
C19_Witness ==
  /\ ~config.AUTO_CONFIRM
  /\ confirm = "DELETE AND REPLACE"
  /\ pc = "done"
  /\ \E j, k \in CallIdx : IsDelete(j) /\ calls[j].ok /\ IsCreate(k) /\ calls[k].ok /\ j < k

\* C20: a declined confirmation (another text, an interrupt, the end of the
\* input) ends the run as cancelled with exit status 0, not as failed, and
\* the run has issued no delete or create call then or later.
C20_DeclineCancels ==
  confirm \notin {"none", "DELETE AND REPLACE"}
    => /\ pc = "cancelled"
       /\ ExitStatus = 0
       /\ ~Destructive

\* A run that stopped a processor and was then declined by the end of input,
\* and one declined by a text in another case.
C20_Witness ==
  /\ pc = "cancelled"
  /\ confirm \in {"<EOFError>", "delete and replace"}
  /\ \E j \in CallIdx : calls[j].op = "PUT" /\ calls[j].ok

\* The steps of main() up to and including the confirmation.
PreGate == {"download", "auth", "root", "prebackup", "stop", "confirm"}

\* What a step before the gate may do.
OnlyStops ==
  pc \in PreGate =>
       /\ present' = present
       /\ nextid' = nextid
       /\ \A i \in Indices(live) :
            (rev'[i] # rev[i] \/ runStatus'[i] # runStatus[i])
              => live[i].kind = "processors" /\ runStatus'[i] = "Stopped"
       /\ calls' # calls =>
            LET c == calls'[Len(calls')] IN
              \/ c.op = "GET"
              \/ c.op = "POST" /\ c.type = "access/token"
              \/ c.op = "PUT" /\ live[Idx(c.id)].kind = "processors"

\* C21: a step taken before the confirmation is accepted deletes nothing and
\* creates nothing; the only requests it sends are reads, the login and stop
\* requests on processors, and all it changes on the server is the run state
\* (and with it the revision) of a processor, to Stopped.
C21_OnlyStopsBeforeGate == [][OnlyStops]_vars

\* A run at the confirmation that has stopped a processor inside a group.
C21_Witness ==
  /\ pc = "confirm"
  /\ \E j \in CallIdx :
       /\ calls[j].op = "PUT" /\ calls[j].ok
       /\ live[Idx(calls[j].id)].parent # 0
       /\ runStatus[Idx(calls[j].id)] = "Stopped"
       /\ rev[Idx(calls[j].id)] # live[Idx(calls[j].id)].version

\* The place of a call in the order of main(): login, root, pre-backup,
\* stop, delete, create; 0 for the calls that the order does not tell apart.
StepRank(c) ==
  CASE c.type = "backup" -> 0
    [] c.type = "access/token" -> 1
    [] c.type = "flow/root" -> 2
    [] c.type = "download" -> 3
    [] c.op = "PUT" -> 4
    [] c.op = "DELETE" -> 5
    [] c.op = "POST" -> 6
    [] OTHER -> 0

\* The calls before the latest one (calls are only ever appended, so a
\* property of the latest call in every state is one of every call).
Earlier == 1..(Len(calls) - 1)

\* C22: the calls of a run come in the order login, root, pre-backup, stop,
\* delete, create: a call never follows one of a later step, no stop or
\* delete call comes before an enabled pre-backup has succeeded, none of them
\* comes before a login and a lookup of the root that succeeded, and no
\* create call comes before a delete call.
C22_StepOrder ==
  calls # << >> =>
    LET c == calls[Len(calls)] IN
    /\ StepRank(c) # 0
         => \A j \in Earlier : StepRank(calls[j]) <= StepRank(c)
    /\ (c.op \in {"PUT", "DELETE"} /\ config.CREATE_PRE_BACKUP /\ ~args.skip_backup)
         => \E k \in Earlier : calls[k].type = "download" /\ calls[k].ok
    /\ StepRank(c) >= 3
         => \E k, m \in Earlier :
              /\ calls[k].type = "access/token" /\ calls[k].ok
              /\ calls[m].type = "flow/root" /\ calls[m].ok /\ k < m

\* A finished run that made the pre-backup, stopped, deleted and created.
C22_Witness ==
  /\ pc = "done"
  /\ \E a, b, c, d \in CallIdx :
       /\ a < b /\ b < c /\ c < d
       /\ calls[a].type = "download" /\ calls[a].ok
       /\ calls[b].op = "PUT"
       /\ IsDelete(c)
       /\ IsCreate(d)

\* The PUTs of the stop walk, and the processors the walk has to stop.
StopCalls(i) == {j \in CallIdx : calls[j].op = "PUT" /\ calls[j].id = Live(i)}
ToStop ==
  {i \in Indices(live) :
     live[i].kind = "processors" /\ NeedsStop(InitialRunStatus(live)[i])}

\* C24: once the stop walk has returned, every processor it read as Running
\* or Validating, at every depth, has had its stop request, failed or not,
\* and every stop request comes before every delete call.
C24_AllStoppedBeforeDelete ==
  /\ stopped_count >= 0 => \A i \in ToStop : StopCalls(i) # {}
  /\ (config.STOP_PROCESSORS /\ ~args.skip_stop /\ \E k \in CallIdx : IsDelete(k))
       => stopped_count >= 0
  /\ (calls # << >> /\ calls[Len(calls)].op = "PUT")
       => \A k \in Earlier : ~IsDelete(k)

\* A run whose first stop request failed, whose second was accepted, and
\* which went on to delete.
C24_Witness ==
  /\ stopped_count = 1
  /\ \E j, k, d \in CallIdx :
       /\ j < k /\ k < d
       /\ calls[j].op = "PUT" /\ ~calls[j].ok
       /\ calls[k].op = "PUT" /\ calls[k].ok
       /\ IsDelete(d) /\ calls[d].ok

\* C25: a failed read of a level of the live flow, at any depth, ends the
\* teardown: no delete call follows it, and the run ends as failed.
C25_FailedReadIsFatal ==
  \A j \in CallIdx :
    (IsGet(j) /\ ~calls[j].ok)
      => /\ tstack = << >> => pc = "failed"
         /\ \A k \in CallIdx : k > j => ~IsDelete(k)

\* The nodes of kind k in the whole of the counted flow.
NodesOfKind(k) == {n \in Indices(snap) : snap[n].kind = k}

HoldsJson(content) ==
  gzip_decompress(content).status = "ok" /\ json_valid(gzip_decompress(content).bytes)

\* C27: a download gives back a valid graph JSON X whether the stored bytes
\* are X or gzip.compress(X), and rejects stored bytes that are neither.
C27_DecodeRoundTrip ==
  flow_json # NotDownloaded
    => /\ json_valid(flow_content) => flow_json = [script |-> flow_json.script,
                                                   status |-> "ok",
                                                   bytes |-> flow_content]
       /\ \A n \in 0..Len(flow_content) :
            LET X == SubSeq(flow_content, n + 1, Len(flow_content))
            IN (json_valid(X) /\ flow_content = compress(X))
                 => flow_json = [script |-> flow_json.script, status |-> "ok",
                                 bytes |-> X]
       /\ (~json_valid(flow_content) /\ ~HoldsJson(flow_content))
            => flow_json.status = "Exception"

\* The run has issued a stop, delete or create call.
Touched == \E j \in CallIdx : calls[j].op = "PUT" \/ IsDelete(j) \/ IsCreate(j)

\* A call of the given type that failed.
FailedCall(type) == \E j \in CallIdx : calls[j].type = type /\ ~calls[j].ok

\* C23: when the login, the lookup of the root or the decoding of the backup
\* fails, the run ends as failed at once and has issued no stop, delete or
\* create call; stored bytes that are no JSON never get as far as a delete.
C23_StructuralFailureAborts ==
  /\ (FailedCall("access/token") \/ FailedCall("flow/root")
        \/ flow_json.status = "Exception")
       => pc = "failed" /\ ~Touched
  /\ (flow_json # NotDownloaded /\ json_loads(flow_json.bytes) \notin {"dict", "list"})
       => pc = "failed" /\ ~Touched
  /\ (\E j \in CallIdx : IsDelete(j))
       => flow_json.status = "ok" /\ json_loads(flow_json.bytes) \in {"dict", "list"}

\* A run that failed on stored bytes that are no JSON, after it had fetched
\* them.
C23_Witness ==
  /\ pc = "failed"
  /\ flow_json.status = "Exception"
  /\ flow_content = <<123>>
  /\ Len(calls) = 1 /\ calls[1].ok

\* The POSTs of the components of a level that a connection may join.
EndpointPosts(level) ==
  {j \in CallIdx : /\ IsPost(j)
                   /\ PostLevel(j) = level
                   /\ calls[j].type \in {"processors", "input-ports", "output-ports",
                                         "funnels"}}

\* C28: at every level the processors, input ports, output ports and
\* funnels are created before any connection of the level.
C28_ConnectionsLast ==
  \A c \in CallIdx :
    (IsPost(c) /\ calls[c].type = "connections")
      => \A k \in EndpointPosts(PostLevel(c)) : k < c

RECURSIVE Inside(_, _)
\* Node c of the backup lies inside group g, at any depth.
Inside(c, g) ==
  IF snap[c].parent = 0 THEN FALSE
  ELSE snap[c].parent = g \/ Inside(snap[c].parent, g)

\* C29: when the create call of a group fails, no create call is issued for
\* anything inside the group, the total counts only what was accepted, and
\* the upload goes on with the items that follow the group.
C29_FailedGroupSkipsSubtree ==
  /\ \A j \in FailedPosts :
       calls[j].type = "process-groups"
         => \A k \in CallIdx : IsPost(k) => ~Inside(Idx(calls[k].node), Idx(calls[j].node))
  /\ pc = "done"
       => /\ imported = Cardinality(AcceptedPosts)
          /\ \A i \in 1..Len(UploadItems) : UploadItems[i] \in Posted

\* A finished upload in which a group that holds components was rejected
\* and the group after it, and a processor, were created.
C29_Witness ==
  /\ pc = "done"
  /\ \E j \in FailedPosts :
       /\ calls[j].type = "process-groups"
       /\ \E n \in Indices(snap) : Inside(n, Idx(calls[j].node))
       /\ \E k, m \in AcceptedPosts :
            /\ j < k /\ k < m
            /\ calls[k].type = "process-groups"
            /\ calls[m].type = "processors"

\* The walk has ended.
Terminated == pc \in {"done", "failed"}

\* No live component has had two delete calls and no node of the backup two
\* create calls.
AtMostOnce ==
  /\ \A i \in Indices(live) :
       Cardinality({j \in CallIdx : IsDelete(j) /\ calls[j].id = Live(i)}) <= 1
  /\ \A n \in Indices(snap) :
       Cardinality({j \in CallIdx : IsPost(j) /\ calls[j].node = Snap(n)}) <= 1

\* C30: the teardown of a live flow and the upload of a backup come to an
\* end whichever of their calls fail, and on the way no component gets a
\* second delete call and no node of the backup a second create call.
C30_WalksTerminate == <>Terminated /\ []AtMostOnce

\* A teardown that has ended after a failed delete and a failed read, with
\* a group deleted after its contents.
C30_Witness ==
  /\ pc = "done"
  /\ \E j, k, m \in CallIdx :
       /\ IsDelete(j) /\ ~calls[j].ok
       /\ IsGet(k) /\ ~calls[k].ok
       /\ IsDelete(m) /\ calls[m].ok /\ calls[m].type = "process-groups"

====
